---- MODULE Spec2Model ----
(***************************************************************************)
(* Model of the free-text-to-structured-question parser                    *)
(* (parse_questions_from_text) of the question generator.                  *)
(*                                                                         *)
(* A text is a sequence of lexical units.  A unit is one character ("1",   *)
(* ".", ")", " ", "A", "x", ...) or one of the words the regular           *)
(* expressions of the parser name as a whole ("Question", "Correct",       *)
(* "Answer", "Explanation", in the two spellings "Word" and "word").  The  *)
(* last letter of each of these words is outside A-D and the words hold no *)
(* digit, delimiter or whitespace, so no pattern of the parser can match   *)
(* across the inside of one: treating them as units loses no match.        *)
(* Positions are 1-based; position Len(s)+1 is the end of the string.      *)
(***************************************************************************)
EXTENDS Integers, Sequences, FiniteSets, TLC

VARIABLES
    text,             \* the argument text
    expected_count,   \* the argument expected_count
    impl,             \* which implementation of the function runs
    pc,               \* "segment", "loop", "done" or "raised"
    question_blocks,  \* the blocks of the text
    i,                \* the number of blocks the loop is through with
    questions,        \* the list the loop builds and the function returns
    origin,           \* history: origin[j] is the number of the block that
                      \* questions[j] was made from (the loop index at the append)
    raised,           \* an exception left the function
    spans,            \* history: spans[j] = <<start_idx, end_idx>> of the j-th
                      \* slice of the positional split, <<>> when the text
                      \* was cut at its headers
    calls,            \* the invocations of several callers that run interleaved:
                      \* calls[c] holds the arguments and the local variables
                      \* of the invocation of caller c
    api               \* the API around the parser: api.engine is the LLMEngine
                      \* (its index, the persisted index directory, the Chroma
                      \* collection), api.req the request being served,
                      \* api.clear the last call of clear_index

\* the variables of the single invocation
local == <<text, expected_count, impl, pc, question_blocks, i, questions, origin, raised, spans>>

vars == <<text, expected_count, impl, pc, question_blocks, i, questions, origin, raised, spans,
          calls, api>>

\* Python's None where a letter is expected (correct_answer)
None == "None"

\* expected_count = None.  The parser reads expected_count first through its
\* truthiness ('and expected_count'), where None and 0 are both false, and
\* divides by it only then: None is represented by 0.
NoCount == 0

\* Optional[Dict]: None is the empty list, a record r is <<r>>
NoRecord == <<>>

-----------------------------------------------------------------------------
(* Character classes and string helpers used by the patterns.              *)

\* \s
IsSpace(c) == c \in {" ", "\n", "\t"}

\* \d
IsDigit(c) == c \in {"0", "1", "2", "3", "4", "5", "6", "7", "8", "9"}

\* str.lower() on one unit
Lower(c) ==
    CASE c = "A" -> "a" [] c = "B" -> "b" [] c = "C" -> "c" [] c = "D" -> "d"
      [] c = "X" -> "x" [] c = "Y" -> "y"
      [] c = "Question" -> "question" [] c = "Correct" -> "correct"
      [] c = "Answer" -> "answer" [] c = "Explanation" -> "explanation"
      [] OTHER -> c

\* str.upper() on one unit
Upper(c) ==
    CASE c = "a" -> "A" [] c = "b" -> "B" [] c = "c" -> "C" [] c = "d" -> "D"
      [] c = "x" -> "X" [] c = "y" -> "Y"
      [] c = "question" -> "QUESTION" [] c = "correct" -> "CORRECT"
      [] c = "answer" -> "ANSWER" [] c = "explanation" -> "EXPLANATION"
      [] OTHER -> c

\* [A-D] under re.IGNORECASE
IsAD(c) == Lower(c) \in {"a", "b", "c", "d"}

\* [\.\)]
IsDelim(c) == c \in {".", ")"}

\* the unit at position p, "" past the end
Tok(s, p) == IF p >= 1 /\ p <= Len(s) THEN s[p] ELSE ""

\* s[a-1:b-1] of Python for 1-based a, b (b exclusive)
Slice(s, a, b) == IF b <= a THEN <<>> ELSE SubSeq(s, a, b - 1)

\* greedy \s* from p: the first position at or after p that holds no whitespace
SkipSpaces(s, p) ==
    IF ~IsSpace(Tok(s, p)) THEN p
    ELSE CHOOSE q \in (p + 1)..(Len(s) + 1) :
             ~IsSpace(Tok(s, q)) /\ \A r \in p..(q - 1) : IsSpace(Tok(s, r))

RECURSIVE SkipDigits(_, _)
\* greedy \d* from p
SkipDigits(s, p) == IF IsDigit(Tok(s, p)) THEN SkipDigits(s, p + 1) ELSE p

\* str.lstrip()
LStrip(s) == SubSeq(s, SkipSpaces(s, 1), Len(s))

\* str.rstrip(): up to the last position that holds no whitespace
RStrip(s) ==
    IF \A q \in 1..Len(s) : IsSpace(s[q]) THEN <<>>
    ELSE SubSeq(s, 1, CHOOSE q \in 1..Len(s) :
                          ~IsSpace(s[q]) /\ \A r \in (q + 1)..Len(s) : IsSpace(s[r]))

\* str.strip()
Strip(s) == RStrip(LStrip(s))

\* '$' without re.MULTILINE: the end of the string, or just before a final newline
AtEnd(s, p) == p = Len(s) + 1 \/ (p = Len(s) /\ s[p] = "\n")

\* the least position q in p..Len(s)+1 with Ok[q], or 0 when there is none
FirstFrom(Ok, n, p) ==
    IF \A q \in p..(n + 1) : ~Ok[q] THEN 0
    ELSE CHOOSE q \in p..(n + 1) : Ok[q] /\ \A r \in p..(q - 1) : ~Ok[r]

-----------------------------------------------------------------------------
(* Block segmentation: _extract_question_blocks.                           *)

\* the header pattern without its '#N' alternative
Header1At_NoHash(s, p) ==
    IF IsDigit(Tok(s, p)) /\ Tok(s, SkipDigits(s, p)) = "." THEN SkipDigits(s, p) + 1
    ELSE IF /\ Tok(s, p) = "Question"
            /\ IsSpace(Tok(s, p + 1))
            /\ IsDigit(Tok(s, SkipSpaces(s, p + 1)))
            /\ Tok(s, SkipDigits(s, SkipSpaces(s, p + 1))) = ":"
         THEN SkipDigits(s, SkipSpaces(s, p + 1)) + 1
    ELSE 0

\* (?:\d+\.|#\d+|Question\s+\d+:) tried at position p, case-sensitive:
\* the position after the header, or 0 when no alternative matches at p
Header1At(s, p) ==
    IF IsDigit(Tok(s, p)) /\ Tok(s, SkipDigits(s, p)) = "." THEN SkipDigits(s, p) + 1
    ELSE IF Tok(s, p) = "#" /\ IsDigit(Tok(s, p + 1)) THEN SkipDigits(s, p + 1)
    ELSE IF /\ Tok(s, p) = "Question"
            /\ IsSpace(Tok(s, p + 1))
            /\ IsDigit(Tok(s, SkipSpaces(s, p + 1)))
            /\ Tok(s, SkipDigits(s, SkipSpaces(s, p + 1))) = ":"
         THEN SkipDigits(s, SkipSpaces(s, p + 1)) + 1
    ELSE 0

\* the second pattern without the number before 'Question'
Header2At_NoNumber(s, p) ==
    IF Tok(s, p) = "Question"
    THEN IF Tok(s, p + 1) = ":" THEN p + 2 ELSE p + 1
    ELSE 0

\* (?:\d+\.\s*Question:?) tried at position p, case-sensitive
Header2At(s, p) ==
    IF /\ IsDigit(Tok(s, p))
       /\ Tok(s, SkipDigits(s, p)) = "."
       /\ Tok(s, SkipSpaces(s, SkipDigits(s, p) + 1)) = "Question"
    THEN LET q == SkipSpaces(s, SkipDigits(s, p) + 1) + 1
         IN  IF Tok(s, q) = ":" THEN q + 1 ELSE q
    ELSE 0

HeaderAt(pat, s, p) == IF pat = 1 THEN Header1At(s, p) ELSE Header2At(s, p)

RECURSIVE FindAllBlocks(_, _, _)
\* re.findall(pattern, text, re.DOTALL) from position p on: each match is a
\* header, \s*, and the lazy group (.*?) up to the next header or '$'; the
\* group is what findall returns and the scan resumes where the match ended
FindAllBlocks(pat, s, p) ==
    LET n     == Len(s)
        start == FirstFrom([q \in 1..(n + 1) |-> HeaderAt(pat, s, q) # 0], n, p)
    IN  IF start = 0 THEN <<>>
        ELSE LET b == SkipSpaces(s, HeaderAt(pat, s, start))
                 e == FirstFrom([q \in 1..(n + 1) |->
                                    HeaderAt(pat, s, q) # 0 \/ AtEnd(s, q)], n, b)
             IN  <<Slice(s, b, e)>> \o FindAllBlocks(pat, s, e)

\* len(text): the words count with their number of characters
CharLen(c) ==
    CASE Lower(c) = "question" -> 8 [] Lower(c) = "correct" -> 7
      [] Lower(c) = "answer" -> 6 [] Lower(c) = "explanation" -> 11
      [] c = "[Missing option]" -> 16
      [] OTHER -> 1

RECURSIVE StrLen(_)
\* the sum of the lengths, by halves
StrLen(s) ==
    IF s = <<>> THEN 0
    ELSE IF Len(s) = 1 THEN CharLen(s[1])
    ELSE LET h == Len(s) \div 2
         IN  StrLen(SubSeq(s, 1, h)) + StrLen(SubSeq(s, h + 1, Len(s)))

Max(a, b) == IF a >= b THEN a ELSE b
Min(a, b) == IF a <= b THEN a ELSE b

\* the context the positional split adds on each side of a slice
Margin == 100

RECURSIVE CharSlice(_, _, _)
\* text[a:b] by character offsets (0-based, b exclusive); a word is kept
\* when the slice covers it whole (the positional split of the model never
\* cuts inside a word: the texts with words are no longer than Margin + 1
\* and are taken whole, the longer texts are made of single characters);
\* by halves
CharSlice(s, a, b) ==
    IF s = <<>> \/ b <= 0 THEN <<>>
    ELSE IF Len(s) = 1 THEN (IF a <= 0 /\ CharLen(s[1]) <= b THEN s ELSE <<>>)
    ELSE LET h == Len(s) \div 2
             w == StrLen(SubSeq(s, 1, h))
         IN  CharSlice(SubSeq(s, 1, h), a, b)
                 \o CharSlice(SubSeq(s, h + 1, Len(s)), a - w, b - w)

\* the positional split with 'range(1, expected_count)'
ManualBlocks_OneShort(s, k) ==
    LET avg_length == StrLen(s) \div k
    IN  [j \in 1..(k - 1) |->
            CharSlice(s, Max(0, j * avg_length - Margin),
                         Min(StrLen(s), (j + 1) * avg_length + Margin))]

\* the start without the widening
SplitStart_NoMargin(n, k, b) == b * (n \div k)

\* 'start = max(0, i * avg_length - 100)' for a text of n characters and
\* the loop index b
SplitStart(n, k, b) == Max(0, b * (n \div k) - Margin)

\* the end without the widening
SplitEnd_NoMargin(n, k, b) == Min(n, (b + 1) * (n \div k))

\* 'end = min(len(text), (i + 1) * avg_length + 100)'
SplitEnd(n, k, b) == Min(n, (b + 1) * (n \div k) + Margin)

\* the positional split: expected_count slices of avg_length characters,
\* each widened by Margin characters on both sides
ManualBlocks(s, k) ==
    [j \in 1..k |->
        CharSlice(s, SplitStart(StrLen(s), k, j - 1), SplitEnd(StrLen(s), k, j - 1))]

\* Python truthiness of expected_count: None and 0 are false
Truthy(k) == k # NoCount

\* the guard without 'and expected_count'
UseManualSplit_NoCountCheck(blocks, k) == blocks = <<>>

\* the guard without 'not question_blocks'
UseManualSplit_NoBlocksCheck(blocks, k) == Truthy(k)

\* 'if not question_blocks and expected_count': the guard of the positional split
UseManualSplit(blocks, k) == blocks = <<>> /\ Truthy(k)

\* the blocks of both header patterns put together
PatternBlocks_Merged(s) == FindAllBlocks(1, s, 1) \o FindAllBlocks(2, s, 1)

\* the blocks the two header patterns give, the second only if the first finds none
PatternBlocks(s) ==
    LET b1 == FindAllBlocks(1, s, 1)
    IN  IF b1 # <<>> THEN b1 ELSE FindAllBlocks(2, s, 1)

\* _extract_question_blocks(text, expected_count)
ExtractQuestionBlocks(s, k) ==
    LET blocks == PatternBlocks(s)
    IN  IF UseManualSplit(blocks, k) THEN ManualBlocks(s, k) ELSE blocks

-----------------------------------------------------------------------------
(* Field extraction from one block.                                        *)

\* the lookahead (?=\s*(?:A[\.\)]|A\s+\))) of q_pattern at position p, re.IGNORECASE
LookA(s, p) ==
    LET e == SkipSpaces(s, p)
    IN  /\ Lower(Tok(s, e)) = "a"
        /\ \/ IsDelim(Tok(s, e + 1))
           \/ IsSpace(Tok(s, e + 1)) /\ Tok(s, SkipSpaces(s, e + 1)) = ")"

\* (?:Question)?:?\s* taken greedily from position p: the position after it.
\* The group that follows is (.*?) under re.DOTALL, which reaches every later
\* position, and every position a shorter prefix would add lies inside the
\* prefix, where the lookahead holds only if it holds at the greedy end too:
\* backtracking into the prefix never finds a match the greedy prefix misses.
QPrefixEnd(s, p) ==
    LET a == IF Lower(Tok(s, p)) = "question" THEN p + 1 ELSE p
        b == IF Tok(s, a) = ":" THEN a + 1 ELSE a
    IN  SkipSpaces(s, b)

\* where the lazy group (.*?) of q_pattern ends in a match that starts at
\* st: the first position at or after the prefix where the lookahead holds,
\* or 0 when there is no match at st
QGroupEnd(s, st) ==
    FirstFrom([q \in 1..(Len(s) + 1) |-> LookA(s, q)], Len(s), QPrefixEnd(s, st))

\* re.search(q_pattern, block, re.DOTALL | re.IGNORECASE) from start position
\* st on: <<TRUE, group(1)>> for the leftmost match, <<FALSE, <<>> >> for None
QSearch(s, st) ==
    LET n     == Len(s)
        start == FirstFrom([q \in 1..(n + 1) |-> QGroupEnd(s, q) # 0], n, st)
    IN  IF start = 0 THEN <<FALSE, <<>> >>
        ELSE <<TRUE, Slice(s, QPrefixEnd(s, start), QGroupEnd(s, start))>>

\* block.split('\n')[0]
FirstLine(s) ==
    Slice(s, 1, FirstFrom([q \in 1..(Len(s) + 1) |-> Tok(s, q) = "\n" \/ q = Len(s) + 1],
                          Len(s), 1))

\* first_line.startswith(('A)', 'B)', 'C)', 'D)')): case-sensitive, ')' only
StartsWithOptionMarker(s) ==
    Len(s) >= 2 /\ s[1] \in {"A", "B", "C", "D"} /\ s[2] = ")"

\* the prefixes of the cleaning loop, in its order
CleanPrefixes ==
    << <<"question", ":">>, <<"1", ".">>, <<"2", ".">>, <<"3", ".">>,
       <<"4", ".">>, <<"5", ".">> >>

\* question_text.lower().startswith(prefix)
LowerStartsWith(s, prefix) ==
    /\ Len(s) >= Len(prefix)
    /\ \A j \in 1..Len(prefix) : Lower(s[j]) = prefix[j]

RECURSIVE CleanQuestionText(_, _)
\* the cleaning loop from prefix number j on: each prefix is tried once, in
\* order, on what the earlier ones left
CleanQuestionText(s, j) ==
    IF j > Len(CleanPrefixes) THEN s
    ELSE IF LowerStartsWith(s, CleanPrefixes[j])
         THEN CleanQuestionText(
                  Strip(Slice(s, Len(CleanPrefixes[j]) + 1, Len(s) + 1)), j + 1)
         ELSE CleanQuestionText(s, j + 1)

\* the question text before cleaning: group(1) of q_pattern, else the first line
RawQuestionText(block) ==
    LET m == QSearch(block, 1)
    IN  IF m[1] THEN Strip(m[2])
        ELSE LET first_line == Strip(FirstLine(block))
             IN  IF first_line # <<>> /\ ~StartsWithOptionMarker(first_line)
                 THEN first_line ELSE <<>>

\* _extract_question_text(block)
ExtractQuestionText(block) == CleanQuestionText(RawQuestionText(block), 1)

\* (?:Correct\s+Answer): at position p, re.IGNORECASE: the position after ':' or 0
CorrectAnswerColonAt(s, p) ==
    IF /\ Lower(Tok(s, p)) = "correct"
       /\ IsSpace(Tok(s, p + 1))
       /\ Lower(Tok(s, SkipSpaces(s, p + 1))) = "answer"
       /\ Tok(s, SkipSpaces(s, p + 1) + 1) = ":"
    THEN SkipSpaces(s, p + 1) + 2
    ELSE 0

\* the letter and the delimiter that open an option at p: pattern 1 is
\* [A-D][\.\)], pattern 2 is [A-D]\s*[\.\)]; the position after the delimiter or 0
OptionMarkAt(pat, s, p) ==
    IF ~IsAD(Tok(s, p)) THEN 0
    ELSE LET d == IF pat = 1 THEN p + 1 ELSE SkipSpaces(s, p + 1)
         IN  IF IsDelim(Tok(s, d)) THEN d + 1 ELSE 0

\* the start of an option match at p: the mark and \s+ (at least one space)
OptionStartAt(pat, s, p) ==
    LET d == OptionMarkAt(pat, s, p)
    IN  IF d # 0 /\ IsSpace(Tok(s, d)) THEN SkipSpaces(s, d) ELSE 0

\* the lookahead that ends an option text: the next mark, 'Correct Answer:' or '$'
OptionStopAt(pat, s, p) ==
    OptionMarkAt(pat, s, p) # 0 \/ CorrectAnswerColonAt(s, p) # 0 \/ AtEnd(s, p)

\* an option as the parser stores it: f"{letter}) {text.strip()}"
FormatOption(letter, txt) == <<letter, ")", " ">> \o Strip(txt)

RECURSIVE FindAllOptions(_, _, _)
\* re.findall(option_pattern, block, re.DOTALL | re.IGNORECASE) from p on,
\* each match (letter, text) already formatted
FindAllOptions(pat, s, p) ==
    LET n     == Len(s)
        start == FirstFrom([q \in 1..(n + 1) |-> OptionStartAt(pat, s, q) # 0], n, p)
    IN  IF start = 0 THEN <<>>
        ELSE LET b == OptionStartAt(pat, s, start)
                 e == FirstFrom([q \in 1..(n + 1) |-> OptionStopAt(pat, s, q)], n, b)
             IN  <<FormatOption(s[start], Slice(s, b, e))>> \o FindAllOptions(pat, s, e)

\* the pattern that finds more options wins
ExtractOptions_MostMatches(block) ==
    LET o1 == FindAllOptions(1, block, 1)
        o2 == FindAllOptions(2, block, 1)
    IN  IF Len(o2) > Len(o1) THEN o2 ELSE o1

\* _extract_options(block): the first pattern that matches anything wins
ExtractOptions(block) ==
    LET o1 == FindAllOptions(1, block, 1)
    IN  IF o1 # <<>> THEN o1 ELSE FindAllOptions(2, block, 1)

\* one correct-answer pattern at p: the marker word(s), ':', \s*, ([A-D]);
\* the position of the letter or 0
AnswerLetterAt(pat, s, p) ==
    LET c == CASE pat = 1 -> CorrectAnswerColonAt(s, p)
               [] pat = 2 -> IF Lower(Tok(s, p)) = "answer" /\ Tok(s, p + 1) = ":"
                             THEN p + 2 ELSE 0
               [] pat = 3 -> IF Lower(Tok(s, p)) = "correct" /\ Tok(s, p + 1) = ":"
                             THEN p + 2 ELSE 0
    IN  IF c # 0 /\ IsAD(Tok(s, SkipSpaces(s, c))) THEN SkipSpaces(s, c) ELSE 0

\* re.search of one correct-answer pattern: group(1).strip().upper(), or None
SearchAnswer(pat, s) ==
    LET n == Len(s)
        q == FirstFrom([r \in 1..(n + 1) |-> AnswerLetterAt(pat, s, r) # 0], n, 1)
    IN  IF q = 0 THEN None ELSE Upper(s[AnswerLetterAt(pat, s, q)])

\* the three markers as alternatives of one pattern: the leftmost marker wins
MarkedAnswer_Leftmost(s) ==
    LET n == Len(s)
        At(r) == IF AnswerLetterAt(1, s, r) # 0 THEN AnswerLetterAt(1, s, r)
                 ELSE IF AnswerLetterAt(2, s, r) # 0 THEN AnswerLetterAt(2, s, r)
                 ELSE AnswerLetterAt(3, s, r)
        q == FirstFrom([r \in 1..(n + 1) |-> At(r) # 0], n, 1)
    IN  IF q = 0 THEN None ELSE Upper(s[At(q)])

\* the loop over correct_patterns: the first pattern that matches wins
MarkedAnswer(s) ==
    LET a1 == SearchAnswer(1, s)
        a2 == SearchAnswer(2, s)
    IN  IF a1 # None THEN a1 ELSE IF a2 # None THEN a2 ELSE SearchAnswer(3, s)

\* a fixed default letter in place of the first option's
DefaultAnswer_FixedA(options) == "A"

\* 'correct_answer = options[0][0]': the first character of the first option
DefaultAnswer(options) == options[1][1]

\* _extract_correct_answer(block, options)
ExtractCorrectAnswer(block, options) ==
    LET correct_answer == MarkedAnswer(block)
    IN  IF correct_answer = None /\ options # <<>>
        THEN DefaultAnswer(options) ELSE correct_answer

\* one explanation pattern found at p: 'Explanation', ':' (re.IGNORECASE)
ExplanationAt(s, p) == Lower(Tok(s, p)) = "explanation" /\ Tok(s, p + 1) = ":"

\* the explanation ends with its line
ExplanationStopAt_Line(pat, s, p) == AtEnd(s, p) \/ Tok(s, p) = "\n"

\* the lookahead that ends the explanation: pattern 1 is '$', pattern 2 is
\* (?=\d+\.\s*Question:|$)
ExplanationStopAt(pat, s, p) ==
    \/ AtEnd(s, p)
    \/ /\ pat = 2
       /\ IsDigit(Tok(s, p))
       /\ Tok(s, SkipDigits(s, p)) = "."
       /\ Lower(Tok(s, SkipSpaces(s, SkipDigits(s, p) + 1))) = "question"
       /\ Tok(s, SkipSpaces(s, SkipDigits(s, p) + 1) + 1) = ":"

\* re.search of one explanation pattern: <<matched, group(1).strip()>>
SearchExplanation(pat, s) ==
    LET n == Len(s)
        q == FirstFrom([r \in 1..(n + 1) |-> ExplanationAt(s, r)], n, 1)
    IN  IF q = 0 THEN <<FALSE, <<>> >>
        ELSE LET b == SkipSpaces(s, q + 2)
                 e == FirstFrom([r \in 1..(n + 1) |-> ExplanationStopAt(pat, s, r)], n, b)
             IN  <<TRUE, Strip(Slice(s, b, e))>>

\* _extract_explanation(block): the first pattern that matches wins
ExtractExplanation(block) ==
    LET m1 == SearchExplanation(1, block)
    IN  IF m1[1] THEN m1[2] ELSE SearchExplanation(2, block)[2]

-----------------------------------------------------------------------------
(* Validation, completion and the record of one block.                     *)

\* 'ABCD'[n] for the 0-based index n
MissingLetter(n) == <<"A", "B", "C", "D">>[n + 1]

\* the placeholder f"{missing_letter}) [Missing option]"
MissingOption(n) == <<MissingLetter(n), ")", " ", "[Missing option]">>

RECURSIVE FillMissingOptions(_)
\* 'while len(options) < 4: options.append(...)'
FillMissingOptions(options) ==
    IF Len(options) < 4
    THEN FillMissingOptions(Append(options, MissingOption(Len(options))))
    ELSE options

\* options[:4] forgotten: every extracted option is returned
TakeFour_NoCut(options) == options

\* options[:4]
TakeFour(options) == SubSeq(options, 1, Min(4, Len(options)))

\* _validate_and_complete_options(options)
ValidateAndCompleteOptions(options) == TakeFour(FillMissingOptions(options))

\* the least number of extracted options of an accepted block
MinOptions == 2

\* one option is taken as enough
Accepts_OneOption(question_text, options) ==
    question_text # <<>> /\ Len(options) >= 1

\* the validation left out
Accepts_Always(question_text, options) == TRUE

\* three options are asked for
Accepts_ThreeOptions(question_text, options) ==
    question_text # <<>> /\ Len(options) >= 3

\* 'len(options) >= 2 and question_text': the test of src/models/parser.py
Accepts(question_text, options) ==
    question_text # <<>> /\ Len(options) >= MinOptions

\* src/models/parser.py: the body of the loop up to the duplicate check;
\* the record of the block, or None when the block is skipped
ParseBlockModels(block) ==
    LET question_text == ExtractQuestionText(block)
        options       == ExtractOptions(block)
    IN  IF Accepts(question_text, options)
        THEN << [question       |-> question_text,
                 options        |-> ValidateAndCompleteOptions(options),
                 correct_answer |-> ExtractCorrectAnswer(block, options),
                 explanation    |-> ExtractExplanation(block)] >>
        ELSE NoRecord

\* multiple_choice_generator.py: the body of the loop up to the duplicate
\* check, the same statements as in src/models/parser.py
ParseBlockScript(block) ==
    LET question_text == ExtractQuestionText(block)
        options       == ExtractOptions(block)
    IN  IF Accepts(question_text, options)
        THEN << [question       |-> question_text,
                 options        |-> ValidateAndCompleteOptions(options),
                 correct_answer |-> ExtractCorrectAnswer(block, options),
                 explanation    |-> ExtractExplanation(block)] >>
        ELSE NoRecord

\* _parse_single_question without the return for fewer than 2 options
ParseSingleQuestion_NoOptionsCheck(block) ==
    LET question_text  == ExtractQuestionText(block)
        options        == ExtractOptions(block)
        correct_answer == ExtractCorrectAnswer(block, options)
    IN  IF question_text = <<>> THEN NoRecord
        ELSE << [question       |-> question_text,
                 options        |-> ValidateAndCompleteOptions(options),
                 correct_answer |-> IF correct_answer = None THEN "A" ELSE correct_answer,
                 explanation    |-> ExtractExplanation(block)] >>

\* src/utils/parser.py: _parse_single_question(block, block_index)
ParseSingleQuestion(block) ==
    LET question_text  == ExtractQuestionText(block)
        options        == ExtractOptions(block)
        correct_answer == ExtractCorrectAnswer(block, options)
    IN  IF question_text = <<>> THEN NoRecord
        ELSE IF Len(options) < MinOptions THEN NoRecord
        ELSE << [question       |-> question_text,
                 options        |-> ValidateAndCompleteOptions(options),
                 correct_answer |-> IF correct_answer = None THEN "A" ELSE correct_answer,
                 explanation    |-> ExtractExplanation(block)] >>

\* the record one implementation makes of one block
ParseBlock(im, block) ==
    CASE im = "models" -> ParseBlockModels(block)
      [] im = "utils"  -> ParseSingleQuestion(block)
      [] im = "script" -> ParseBlockScript(block)

\* the duplicate check left out
IsDuplicate_Never(qs, q) == FALSE

\* the duplicate check compares the options too
IsDuplicate_WholeRecord(qs, q) ==
    \E j \in 1..Len(qs) : qs[j].question = q.question /\ qs[j].options = q.options

\* 'any(q["question"] == question_text for q in questions)'
IsDuplicate(qs, q) == \E j \in 1..Len(qs) : qs[j].question = q.question

\* a block without record ends the loop's work: the list is emptied
AddParsed_ClearOnFailure(qs, parsed) ==
    IF parsed = NoRecord THEN <<>>
    ELSE IF ~IsDuplicate(qs, parsed[1]) THEN Append(qs, parsed[1]) ELSE qs

\* one turn of the loop over the blocks: the list after the block
AddParsed(qs, parsed) ==
    IF parsed # NoRecord /\ ~IsDuplicate(qs, parsed[1]) THEN Append(qs, parsed[1]) ELSE qs

RECURSIVE ParseBlocks(_, _, _, _)
\* the loop over the blocks from block number j on
ParseBlocks(im, blocks, j, qs) ==
    IF j > Len(blocks) THEN qs
    ELSE ParseBlocks(im, blocks, j + 1, AddParsed(qs, ParseBlock(im, blocks[j])))

\* parse_questions_from_text(text, expected_count) as one function
ParseQuestionsFromText(im, s, k) ==
    ParseBlocks(im, ExtractQuestionBlocks(s, k), 1, <<>>)

\* the label and the text the callers read from a stored option:
\* opt[0] and opt[3:].strip()
OptionLabel(opt) == opt[1]
OptionText(opt) == Strip(Slice(opt, 4, Len(opt) + 1))

-----------------------------------------------------------------------------
(* The inputs: texts in the shape the language model is asked for, with    *)
(* the deviations the parser is written to tolerate, and short free texts. *)

\* the most option lines of one item
MaxOpts == 5

\* up to this length every list of option letters is drawn
ShortLen == 2

\* the most items of a text with several questions
MaxItems == 2

\* expected_count ranges over None and 1..MaxCount
MaxCount == 2

\* the greatest length of the free texts
FreeLen == 2

\* the most 'Question:' labels stacked before a question text
MaxStack == 3

\* the two implementations of parse_questions_from_text under src/src
Impls == {"models", "utils"}

\* all implementations of the repository: those two and the script
\* multiple_choice_generator.py
AllImpls == Impls \cup {"script"}

Counts == {NoCount} \cup (1..MaxCount)

HeaderStyles == {"none", "num", "hash", "qn", "numq"}

HeaderText(h) ==
    CASE h = "none" -> <<>>
      [] h = "num"  -> <<"1", ".", " ">>
      [] h = "hash" -> <<"#", "1", " ">>
      [] h = "qn"   -> <<"Question", " ", "1", ":", " ">>
      [] h = "numq" -> <<"1", ".", " ", "Question", ":", " ">>

AnswerStyles == {"none", "CA", "Ans", "Cor", "lower"}

AnswerText(a) ==
    CASE a = "none"  -> <<>>
      [] a = "CA"    -> <<"Correct", " ", "Answer", ":", " ", "B">>
      [] a = "Ans"   -> <<"Answer", ":", " ", "C">>
      [] a = "Cor"   -> <<"Correct", ":", "D">>
      [] a = "lower" -> <<"correct", " ", "answer", ":", " ", "b">>

ExplanationText(e) == IF e THEN <<" ", "Explanation", ":", " ", "y", "\n">> ELSE <<>>

DelimStyles == {<<")">>, <<".">>, <<" ", ")">>}

\* the text of the option at place j of an item
OptionWord(j) == IF j % 2 = 1 THEN "x" ELSE "y"

RECURSIVE OptionLines(_, _, _, _)
\* the option lines of an item: letter, delimiter, space, text, separator
OptionLines(letters, delim, sep, j) ==
    IF j > Len(letters) THEN <<>>
    ELSE <<letters[j]>> \o delim \o <<" ", OptionWord(j)>> \o sep
             \o OptionLines(letters, delim, sep, j + 1)

\* one item: header, question text, options, answer marker, explanation
Item(h, q, sep, letters, delim, a, e) ==
    HeaderText(h) \o q \o sep \o OptionLines(letters, delim, sep, 1)
        \o AnswerText(a) \o ExplanationText(e)

RECURSIVE SeqsUpTo(_, _)
\* the sequences over S of length at most n
SeqsUpTo(S, n) ==
    IF n = 0 THEN {<<>>}
    ELSE LET shorter == SeqsUpTo(S, n - 1)
         IN  shorter \cup {Append(t, c) : t \in shorter, c \in S}

\* A, B, C, D, A, B, ...: the option letters of a long item
CycleLetters(n) == [j \in 1..n |-> <<"A", "B", "C", "D">>[((j - 1) % 4) + 1]]

\* every list over three letters up to ShortLen, and the long lists up to MaxOpts
LetterLists ==
    SeqsUpTo({"A", "B", "b"}, ShortLen) \cup {CycleLetters(n) : n \in 1..MaxOpts}

\* one question, any list of option letters
ListTexts ==
    {Item(h, <<"x">>, sep, letters, delim, a, FALSE) :
        h \in {"none", "num"}, sep \in {<<" ">>, <<"\n">>}, letters \in LetterLists,
        delim \in {<<")">>, <<".">>}, a \in {"none", "CA"}}

\* the option letters of the texts that vary the style
StyleLetters == {<<"A", "B">>, <<"B", "C">>, <<"a", "b", "c">>}

\* one question, any header, delimiter and answer marker; with an
\* explanation; without question text
StyleTexts ==
    {Item(h, <<"x">>, sep, letters, delim, a, FALSE) :
        h \in HeaderStyles, sep \in {<<" ">>, <<"\n">>}, letters \in StyleLetters,
        delim \in DelimStyles, a \in AnswerStyles}
    \cup {Item(h, <<"x">>, sep, <<"A", "B">>, <<")">>, a, TRUE) :
        h \in HeaderStyles, sep \in {<<" ">>, <<"\n">>}, a \in AnswerStyles}
    \cup {Item(h, <<>>, sep, letters, delim, "none", FALSE) :
        h \in HeaderStyles, sep \in {<<" ">>, <<"\n">>}, letters \in StyleLetters,
        delim \in DelimStyles}

\* the format the prompt asks for, with 1..MaxOpts option lines
CanonTexts ==
    {Item("numq", <<"x">>, <<"\n">>, CycleLetters(n), <<")">>, a, e) :
        n \in 1..MaxOpts, a \in AnswerStyles, e \in BOOLEAN}

\* the items of a text with several questions
PlainItems ==
    {Item("num", q, <<" ">>, la[1], <<")">>, la[2], FALSE) :
        q \in {<<"x">>, <<"y">>},
        la \in {<< <<"A">>, "none" >>, << <<"A", "B">>, "none" >>,
                << <<"A", "B", "C">>, "CA" >>}}

RECURSIVE Concat(_)
Concat(ss) == IF ss = <<>> THEN <<>> ELSE Head(ss) \o Concat(Tail(ss))

\* several questions in one text
ManyTexts == {Concat(t) : t \in SeqsUpTo(PlainItems, MaxItems)}

\* short texts of any shape
FreeTexts == SeqsUpTo({"1", ".", "A", ")", " ", "x"}, FreeLen)

\* one question with two answer markers, one after the other
MarkerTexts ==
    {Item("num", <<"x">>, sep, <<"A", "B">>, <<")">>, a1, FALSE) \o <<"\n">> \o AnswerText(a2) :
        sep \in {<<" ">>, <<"\n">>}, a1 \in AnswerStyles \ {"none"},
        a2 \in AnswerStyles \ {"none"}}

RECURSIVE MixedOptionLines(_, _, _, _)
\* option lines of which each has its own delimiter
MixedOptionLines(letters, delims, sep, j) ==
    IF j > Len(letters) THEN <<>>
    ELSE <<letters[j]>> \o delims[j] \o <<" ", OptionWord(j)>> \o sep
             \o MixedOptionLines(letters, delims, sep, j + 1)

\* one question whose option lines mix 'A)' and 'A )'
MixedTexts ==
    {HeaderText("num") \o <<"x">> \o sep \o MixedOptionLines(<<"A", "B", "C">>, delims, sep, 1) :
        sep \in {<<" ">>, <<"\n">>}, delims \in [1..3 -> {<<")">>, <<" ", ")">>}]}

\* n times the label 'Question: '
QuestionLabels(n) == Concat([j \in 1..n |-> <<"Question", ":", " ">>])

\* one question with 0..MaxStack labels before its text, with and without
\* an option A
StackTexts ==
    {HeaderText(h) \o QuestionLabels(n) \o <<"x">> \o <<"\n">>
         \o OptionLines(letters, <<")">>, <<"\n">>, 1) :
        h \in {"none", "num"}, n \in 0..MaxStack,
        letters \in {<<"A", "B">>, <<"B", "C">>}}

\* what can follow the options as explanation: lower case, two lines, two
\* markers, an answer marker after it, nothing after the marker, no marker
ExplanationTails ==
    {<<"explanation", ":", " ", "y">>,
     <<"Explanation", ":", " ", "y", "\n", "x", "\n">>,
     <<"Explanation", ":", " ", "y", " ", "Explanation", ":", " ", "x">>,
     <<"Explanation", ":", " ", "y", "\n", "Correct", " ", "Answer", ":", " ", "B">>,
     <<"Explanation", ":">>,
     <<"Explanation", " ", ":", " ", "y">>}

\* one question followed by an explanation
ExplainTexts ==
    {Item(h, <<"x">>, <<"\n">>, <<"A", "B">>, <<")">>, "none", FALSE) \o tail :
        h \in {"none", "num"}, tail \in ExplanationTails}

\* one question whose answer marker names the letter A
KeyTexts ==
    {Item("num", <<"x">>, sep, letters, <<")">>, "none", FALSE) \o <<"Answer", ":", " ", "A">> :
        sep \in {<<" ">>, <<"\n">>}, letters \in {<<"A", "B">>, <<"B", "C">>}}

\* s followed by spaces up to n characters
Pad(s, n) == s \o [j \in 1..(n - StrLen(s)) |-> " "]

\* a text without header of exactly Margin characters, and one character more
LongTexts ==
    {Pad(Item("none", <<"x">>, <<" ">>, <<"A", "B">>, <<")">>, "none", FALSE), n) :
        n \in {Margin, Margin + 1}}

Texts ==
    ListTexts \cup StyleTexts \cup CanonTexts \cup ManyTexts \cup FreeTexts
        \cup MarkerTexts \cup MixedTexts \cup StackTexts \cup ExplainTexts
        \cup KeyTexts \cup LongTexts

\* the callers whose invocations run interleaved
Callers == {"c1", "c2"}

\* a caller that has not called yet ("overlapped" is history: a step of the
\* invocation was taken while another invocation was running)
IdleCall ==
    [text |-> <<>>, expected_count |-> NoCount, pc |-> "idle",
     question_blocks |-> <<>>, i |-> 0, questions |-> <<>>, overlapped |-> FALSE]

\* the texts of the interleaved invocations: empty, without header, two
\* questions, the same question twice around an item with one option
CallTexts ==
    LET it(q, letters) == Item("num", q, <<" ">>, letters, <<")">>, "none", FALSE)
    IN  {<<>>,
         Item("none", <<"x">>, <<" ">>, <<"A", "B">>, <<")">>, "none", FALSE),
         it(<<"x">>, <<"A", "B">>) \o it(<<"y">>, <<"A", "B">>),
         it(<<"y">>, <<"A", "B">>) \o it(<<"x">>, <<"A">>) \o it(<<"y">>, <<"A", "B">>)}

\* the largest number of chunks the Chroma collection holds
MaxChunks == 2

\* Optional[str]: None is the empty list, a text t is <<t>>
NoText == <<>>

\* LLMEngine after __init__ with nothing persisted: 'self.index = None', no
\* index directory, an empty collection
NewEngine == [index |-> FALSE, dir |-> "absent", collection |-> 0]

\* no request is being served
IdleRequest ==
    [path |-> "none", pc |-> "idle", num_questions |-> 0, raw_questions |-> NoText,
     parser_called |-> FALSE, parsed_questions |-> <<>>, outcome |-> "none"]

\* clear_index has not been called since the last request ("before" is
\* history: the engine as the last call of clear_index found it)
NoClear(e) == [result |-> "none", before |-> e]

\* the API at rest
IdleApi == [engine |-> NewEngine, req |-> IdleRequest, clear |-> NoClear(NewEngine)]

-----------------------------------------------------------------------------
(* One call of parse_questions_from_text as a state machine.               *)

\* the offsets 'start_idx' and 'end_idx' of the slices the positional split
\* takes from the text (none when the text is cut at its headers)
SplitSpans(s, k) ==
    IF UseManualSplit(PatternBlocks(s), k)
    THEN [j \in 1..k |-> <<SplitStart(StrLen(s), k, j - 1), SplitEnd(StrLen(s), k, j - 1)>>]
    ELSE <<>>

\* 'len(text) // expected_count' outside any try: TypeError for None,
\* ZeroDivisionError for 0
SplitRaises(blocks, k) == ~Truthy(k) /\ UseManualSplit(blocks, k)

Init ==
    /\ text \in Texts
    /\ expected_count \in Counts
    /\ impl \in Impls
    /\ pc = "segment"
    /\ question_blocks = <<>>
    /\ i = 0
    /\ questions = <<>>
    /\ origin = <<>>
    /\ raised = FALSE
    /\ spans = <<>>
    /\ calls = [c \in Callers |-> IdleCall]
    /\ api = IdleApi

\* the segmentation of the text into blocks
Segment ==
    /\ pc = "segment"
    /\ IF SplitRaises(PatternBlocks(text), expected_count)
       THEN /\ raised' = TRUE
            /\ pc' = "raised"
            /\ UNCHANGED <<question_blocks, spans>>
       ELSE /\ question_blocks' = ExtractQuestionBlocks(text, expected_count)
            /\ spans' = SplitSpans(text, expected_count)
            /\ pc' = "loop"
            /\ UNCHANGED raised
    /\ UNCHANGED <<text, expected_count, impl, i, questions, origin, calls, api>>

\* one turn of 'for i, block in enumerate(question_blocks)'
ParseNextBlock ==
    /\ pc = "loop"
    /\ i < Len(question_blocks)
    /\ questions' = AddParsed(questions, ParseBlock(impl, question_blocks[i + 1]))
    /\ origin' = IF Len(questions') > Len(questions) THEN Append(origin, i + 1) ELSE origin
    /\ i' = i + 1
    /\ UNCHANGED <<text, expected_count, impl, pc, question_blocks, raised, spans, calls, api>>

\* 'return questions'
Return ==
    /\ pc = "loop"
    /\ i = Len(question_blocks)
    /\ pc' = "done"
    /\ UNCHANGED <<text, expected_count, impl, question_blocks, i, questions, origin, raised,
                   spans, calls, api>>

Next == Segment \/ ParseNextBlock \/ Return

Spec == Init /\ [][Next]_vars

TypeOK ==
    /\ pc \in {"segment", "loop", "done", "raised"}
    /\ raised \in BOOLEAN
    /\ i \in 0..Len(question_blocks)
    /\ Len(questions) <= i
    /\ Len(origin) = Len(questions)

-----------------------------------------------------------------------------
(* Invocations of several callers, interleaved step by step.               *)

\* another invocation is between its entry and its return
OthersRunning(c) == \E d \in Callers \ {c} : calls[d].pc \in {"segment", "loop"}

\* the list is the one another invocation holds (a list kept at module
\* level or as a default argument)
StartList_Shared(lists) == CHOOSE l \in lists : \A m \in lists : Len(m) <= Len(l)

\* 'questions = []': the list an invocation starts with, given the lists the
\* other invocations hold
StartList(lists) == <<>>

\* caller c calls parse_questions_from_text(t, k)
Call(c) ==
    /\ calls[c].pc = "idle"
    /\ \E t \in CallTexts, k \in Counts :
           calls' = [calls EXCEPT ![c] =
                        [text |-> t, expected_count |-> k, pc |-> "segment",
                         question_blocks |-> <<>>, i |-> 0,
                         questions |-> StartList({calls[d].questions : d \in Callers \ {c}}),
                         overlapped |-> OthersRunning(c)]]
    /\ UNCHANGED <<local, api>>

\* the segmentation in the invocation of caller c
CallSegment(c) ==
    /\ calls[c].pc = "segment"
    /\ calls' = [calls EXCEPT ![c] =
           IF SplitRaises(PatternBlocks(calls[c].text), calls[c].expected_count)
           THEN [calls[c] EXCEPT !.pc = "raised"]
           ELSE [calls[c] EXCEPT
                    !.question_blocks = ExtractQuestionBlocks(calls[c].text,
                                                              calls[c].expected_count),
                    !.pc = "loop"]]
    /\ UNCHANGED <<local, api>>

\* one turn of the loop in the invocation of caller c
CallParseNextBlock(c) ==
    /\ calls[c].pc = "loop"
    /\ calls[c].i < Len(calls[c].question_blocks)
    /\ calls' = [calls EXCEPT ![c] =
           [calls[c] EXCEPT
               !.questions = AddParsed(@, ParseBlock(impl,
                                           calls[c].question_blocks[calls[c].i + 1])),
               !.i = @ + 1,
               !.overlapped = @ \/ OthersRunning(c)]]
    /\ UNCHANGED <<local, api>>

\* the return of the invocation of caller c
CallReturn(c) ==
    /\ calls[c].pc = "loop"
    /\ calls[c].i = Len(calls[c].question_blocks)
    /\ calls' = [calls EXCEPT ![c] = [calls[c] EXCEPT !.pc = "done"]]
    /\ UNCHANGED <<local, api>>

\* the callers use one of the implementations; no single invocation runs
\* beside theirs
InitCalls ==
    /\ text = <<>>
    /\ expected_count = NoCount
    /\ impl \in Impls
    /\ pc = "done"
    /\ question_blocks = <<>>
    /\ i = 0
    /\ questions = <<>>
    /\ origin = <<>>
    /\ raised = FALSE
    /\ spans = <<>>
    /\ calls = [c \in Callers |-> IdleCall]
    /\ api = IdleApi

NextCalls ==
    \E c \in Callers : Call(c) \/ CallSegment(c) \/ CallParseNextBlock(c) \/ CallReturn(c)

SpecCalls == InitCalls /\ [][NextCalls]_vars

-----------------------------------------------------------------------------
(* The positional split of long texts into many blocks.                    *)

\* the largest expected_count of the long texts
MaxSplitCount == 102

\* 'num_questions: int = Field(..., ge=1, le=20)': the largest count the
\* API passes on
MaxNumQuestions == 20

\* the counts of the long texts: the small ones, the API's largest, and
\* the ones around Margin + 1, where avg_length * expected_count can fall
\* short of len(text) by more than Margin
SplitCounts ==
    {1, 2, 3, MaxNumQuestions, MaxSplitCount - 2, MaxSplitCount - 1, MaxSplitCount}

\* the lengths of the long texts, up to twice the margin and a little more
SplitLens ==
    {Margin - 1, Margin, Margin + 1, 2 * Margin - 1, 2 * Margin, 2 * Margin + 1,
     2 * Margin + 2, 2 * Margin + 3}

\* the empty text, and one item without header followed by blanks
SplitTexts ==
    {<<>>} \cup
    {Pad(Item("none", <<"x">>, <<" ">>, <<"A", "B">>, <<")">>, "none", FALSE), n) :
        n \in SplitLens}

InitSplit ==
    /\ text \in SplitTexts
    /\ expected_count \in SplitCounts
    /\ impl = "utils"
    /\ pc = "segment"
    /\ question_blocks = <<>>
    /\ i = 0
    /\ questions = <<>>
    /\ origin = <<>>
    /\ raised = FALSE
    /\ spans = <<>>
    /\ calls = [c \in Callers |-> IdleCall]
    /\ api = IdleApi

SpecSplit == InitSplit /\ [][Next]_vars

-----------------------------------------------------------------------------
(* The API: question generation and the index life cycle.                  *)

\* the two callers of the parser: the /questions/generate endpoint and
\* QuestionGenerationService.generate_questions
ApiPaths == {"endpoint", "service"}

\* num_questions of the requests
ApiCounts == {1, MaxCount, MaxNumQuestions}

\* the texts the LLM answers with
ApiTexts == CallTexts

\* what the failure injected into clear_index hits: nothing, shutil.rmtree
\* before it removed anything, shutil.rmtree part-way, or the delete of the
\* collection
ClearFaults == {"none", "rmtree_start", "rmtree", "delete"}

\* the engine after a process restart: the index directory and the
\* collection of an earlier run may be there, 'self.index' is None
Engines ==
    {NewEngine} \cup
    {[index |-> FALSE, dir |-> "present", collection |-> n] : n \in 1..MaxChunks}

\* engine.load_index(): the index is set when the directory is there and
\* the storage can be read (ok); an exception is caught and leaves None
LoadIndex(e, ok) == IF e.dir = "present" /\ ok THEN [e EXCEPT !.index = TRUE] ELSE e

\* engine.create_index(nodes): nothing for an empty list, else the index is
\* built over the collection and persisted
CreateIndex(e, nodes) ==
    IF nodes = 0 THEN e
    ELSE [index |-> TRUE, dir |-> "present", collection |-> e.collection + nodes]

\* engine.clear_index() under a fault: <<the value returned, the engine after>>
ClearIndex(e, fault) ==
    IF e.dir = "absent" THEN <<FALSE, e>>
    ELSE CASE fault = "rmtree_start" -> <<FALSE, e>>
           [] fault = "rmtree"       -> <<FALSE, [e EXCEPT !.dir = "partial"]>>
           [] fault = "delete"       -> <<FALSE, [e EXCEPT !.dir = "absent"]>>
           [] OTHER -> <<TRUE, [index |-> FALSE, dir |-> "absent", collection |-> 0]>>

\* a request for num_questions questions arrives on path p
ApiRequest(p, n) ==
    /\ api.req.pc = "idle"
    /\ api' = [api EXCEPT
                  !.req = [IdleRequest EXCEPT !.path = p, !.pc = "load",
                                              !.num_questions = n],
                  !.clear = NoClear(api.clear.before)]
    /\ UNCHANGED <<local, calls>>

\* 'documents = load_documents()' and the test 'if not documents': the
\* endpoint raises HTTPException(404), the service returns None
ApiLoadDocuments ==
    /\ api.req.pc = "load"
    /\ \E documents \in BOOLEAN :
           api' = [api EXCEPT !.req =
                      IF documents THEN [api.req EXCEPT !.pc = "index"]
                      ELSE [api.req EXCEPT
                               !.pc = "done",
                               !.outcome = IF api.req.path = "endpoint"
                                           THEN "HTTP 404" ELSE "None"]]
    /\ UNCHANGED <<local, calls>>

\* 'if not engine.index: engine.load_index()' and 'if not engine.index:
\* ... engine.create_index(nodes)', with the number of nodes the documents
\* are split into
ApiEnsureIndex ==
    /\ api.req.pc = "index"
    /\ \E ok \in BOOLEAN, nodes \in 0..MaxChunks :
           /\ api.engine.collection + nodes <= MaxChunks
           /\ LET e1 == IF ~api.engine.index THEN LoadIndex(api.engine, ok) ELSE api.engine
                  e2 == IF ~e1.index THEN CreateIndex(e1, nodes) ELSE e1
              IN  api' = [api EXCEPT !.engine = e2,
                                     !.req = [api.req EXCEPT !.pc = "generate"]]
    /\ UNCHANGED <<local, calls>>

\* 'raw_questions = engine.generate_questions(...)': None without an index,
\* None from _generate_with_llm for an empty context, else the LLM's text
\* (the retriever is taken to return at least one node)
ApiGenerate ==
    /\ api.req.pc = "generate"
    /\ \E empty_context \in BOOLEAN, t \in ApiTexts :
           api' = [api EXCEPT !.req =
                      [api.req EXCEPT
                          !.pc = "parse",
                          !.raw_questions =
                              IF ~api.engine.index \/ empty_context THEN NoText
                              ELSE <<t>>]]
    /\ UNCHANGED <<local, calls>>

\* the rest of the handler: the service returns None for a raw_questions
\* that is None; otherwise parse_questions_from_text(raw_questions,
\* num_questions) is called, which raises TypeError in re.findall when it is
\* handed None, and the parsed questions go into the response
ApiParse ==
    /\ api.req.pc = "parse"
    /\ api' = [api EXCEPT !.req =
          IF api.req.path = "service" /\ api.req.raw_questions = NoText
          THEN [api.req EXCEPT !.pc = "done", !.outcome = "None"]
          ELSE IF api.req.raw_questions = NoText
          THEN [api.req EXCEPT !.pc = "done", !.parser_called = TRUE,
                               !.outcome = "TypeError"]
          ELSE [api.req EXCEPT
                   !.pc = "done", !.parser_called = TRUE,
                   !.parsed_questions =
                       ParseQuestionsFromText("models", api.req.raw_questions[1],
                                              api.req.num_questions),
                   !.outcome = "QuestionResponse"]]
    /\ UNCHANGED <<local, calls>>

\* the handler has returned
ApiRespond ==
    /\ api.req.pc = "done"
    /\ api' = [api EXCEPT !.req = IdleRequest]
    /\ UNCHANGED <<local, calls>>

\* DELETE /index and IndexService.clear_index: engine.clear_index(), whose
\* value decides between 200 and 404
ApiClearIndex ==
    /\ api.req.pc = "idle"
    /\ \E fault \in ClearFaults :
           LET r == ClearIndex(api.engine, fault)
           IN  api' = [api EXCEPT
                          !.engine = r[2],
                          !.clear = [result |-> IF r[1] THEN "True" ELSE "False",
                                     before |-> api.engine]]
    /\ UNCHANGED <<local, calls>>

InitApi ==
    /\ text = <<>>
    /\ expected_count = NoCount
    /\ impl = "models"
    /\ pc = "done"
    /\ question_blocks = <<>>
    /\ i = 0
    /\ questions = <<>>
    /\ origin = <<>>
    /\ raised = FALSE
    /\ spans = <<>>
    /\ calls = [c \in Callers |-> IdleCall]
    /\ api \in {[engine |-> e, req |-> IdleRequest, clear |-> NoClear(e)] : e \in Engines}

NextApi ==
    \/ \E p \in ApiPaths, n \in ApiCounts : ApiRequest(p, n)
    \/ ApiLoadDocuments
    \/ ApiEnsureIndex
    \/ ApiGenerate
    \/ ApiParse
    \/ ApiRespond
    \/ ApiClearIndex

SpecApi == InitApi /\ [][NextApi]_vars

-----------------------------------------------------------------------------
(* Properties of the returned records.                                     *)

\* the block a returned record was made from
BlockOf(j) == question_blocks[origin[j]]

\* the labels of the options of a record, in their order
Labels(q) == [n \in 1..Len(q.options) |-> OptionLabel(q.options[n])]

\* a block passes validation: non-empty question text and at least 2 options
PassesValidation(block) ==
    ExtractQuestionText(block) # <<>> /\ Len(ExtractOptions(block)) >= 2

\* C1: every returned record has four options labelled A, B, C, D in that
\* order, whatever letters, case or order the block used.
C1_LabelsABCD ==
    \A j \in 1..Len(questions) : Labels(questions[j]) = <<"A", "B", "C", "D">>

\* C2: every returned record has exactly 4 options: 2 or 3 extracted options
\* are padded to 4, more than 4 are cut to 4.
C2_FourOptions ==
    \A j \in 1..Len(questions) : Len(questions[j].options) = 4

\* C2 witness: a returned record whose block held more than 4 options
C2_Witness ==
    /\ pc = "done"
    /\ \E j \in 1..Len(questions) : Len(ExtractOptions(BlockOf(j))) > 4

\* C3: no two returned records have the same question text.
C3_NoDuplicateQuestions ==
    \A a, b \in 1..Len(questions) :
        a # b => questions[a].question # questions[b].question

\* C3 witness: two blocks pass validation with the same question text
C3_Witness ==
    /\ pc = "done"
    /\ \E a, b \in 1..Len(question_blocks) :
          /\ a < b
          /\ PassesValidation(question_blocks[a])
          /\ PassesValidation(question_blocks[b])
          /\ ExtractQuestionText(question_blocks[a]) = ExtractQuestionText(question_blocks[b])

\* C4: the function never raises, for every text and for expected_count None
\* or positive: it runs through every block and returns its list.
C4_NeverRaises ==
    /\ ~raised
    /\ pc # "raised"
    /\ pc = "done" => i = Len(question_blocks) /\ Len(questions) <= Len(question_blocks)

\* C4 witness: a text without any header, parsed with expected_count None,
\* has returned
C4_Witness ==
    /\ pc = "done"
    /\ text # <<>>
    /\ PatternBlocks(text) = <<>>
    /\ expected_count = NoCount
    /\ questions = <<>>

\* C5: correct_answer of every returned record is one of the uppercase
\* letters A, B, C, D, read from a marker or defaulted.
C5_AnswerIsUpperLetter ==
    \A j \in 1..Len(questions) : questions[j].correct_answer \in {"A", "B", "C", "D"}

\* the block holds a "Correct Answer: X", "Answer: X" or "Correct: X" marker
\* (any case): the word, a colon, optional whitespace and a letter A-D
HasAnswerMarker(block) ==
    \E p \in 1..Len(block) :
        /\ Lower(block[p]) \in {"answer", "correct"}
        /\ Tok(block, p + 1) = ":"
        /\ \E q \in (p + 2)..Len(block) :
              /\ IsAD(block[q])
              /\ \A r \in (p + 2)..(q - 1) : IsSpace(block[r])

\* C6: a record made from a block without any answer marker has the label
\* of the first option extracted from the block as its correct_answer.
C6_DefaultIsFirstLabel ==
    pc = "done" => \A j \in 1..Len(questions) :
        ~HasAnswerMarker(BlockOf(j)) =>
            questions[j].correct_answer = OptionLabel(questions[j].options[1])

\* C6 witness: a returned record of a block without marker whose first
\* option is not labelled A
C6_Witness ==
    /\ pc = "done"
    /\ \E j \in 1..Len(questions) :
          /\ ~HasAnswerMarker(BlockOf(j))
          /\ OptionLabel(questions[j].options[1]) # "A"

\* C7: a record comes only from a block with non-empty question text and at
\* least 2 extracted options, and its question text is non-empty and trimmed.
C7_OnlyValidBlocks ==
    pc = "done" => \A j \in 1..Len(questions) :
        /\ ExtractQuestionText(BlockOf(j)) # <<>>
        /\ Len(ExtractOptions(BlockOf(j))) >= 2
        /\ questions[j].question # <<>>
        /\ ~IsSpace(questions[j].question[1])
        /\ ~IsSpace(questions[j].question[Len(questions[j].question)])

\* C7 witness: the call has returned and a block with question text and
\* exactly one option gave no record
C7_Witness ==
    /\ pc = "done"
    /\ \E b \in 1..Len(question_blocks) :
          /\ ExtractQuestionText(question_blocks[b]) # <<>>
          /\ Len(ExtractOptions(question_blocks[b])) = 1
          /\ \A j \in 1..Len(origin) : origin[j] # b

\* C8: the result is empty exactly when no block passes validation.
C8_EmptyIffNoValidBlock ==
    pc = "done" =>
        (questions = <<>> <=>
            \A b \in 1..Len(question_blocks) : ~PassesValidation(question_blocks[b]))

\* C8 witness: deduplication dropped a valid block and the result is not empty
C8_Witness ==
    /\ pc = "done"
    /\ Len(questions) = 1
    /\ Cardinality({b \in 1..Len(question_blocks) :
                       PassesValidation(question_blocks[b])}) >= 2

\* the blocks whose record is kept: valid, and no earlier valid block has the
\* same question text
KeptBlocks ==
    LET valid == {b \in 1..Len(question_blocks) : PassesValidation(question_blocks[b])}
    IN  {b \in valid :
            \A c \in valid :
                c < b => ExtractQuestionText(question_blocks[c])
                             # ExtractQuestionText(question_blocks[b])}

\* the j-th block of a set of blocks in the order of the blocks
Nth(S, j) == CHOOSE b \in S : Cardinality({c \in S : c < b}) = j - 1

\* C9: the records are in the order of their blocks, and of several valid
\* blocks with the same question text only the earliest is kept, with its own
\* options, correct_answer and explanation.
C9_OrderAndEarliestKept ==
    pc = "done" =>
        LET kept == KeptBlocks
        IN  /\ Len(questions) = Cardinality(kept)
            /\ \A j \in 1..Len(questions) :
                  /\ origin[j] = Nth(kept, j)
                  /\ <<questions[j]>> = ParseBlock(impl, question_blocks[Nth(kept, j)])

\* C9 witness: two valid blocks with the same question text and different
\* options
C9_Witness ==
    /\ pc = "done"
    /\ \E a, b \in 1..Len(question_blocks) :
          /\ a < b
          /\ PassesValidation(question_blocks[a])
          /\ PassesValidation(question_blocks[b])
          /\ ExtractQuestionText(question_blocks[a]) = ExtractQuestionText(question_blocks[b])
          /\ ExtractOptions(question_blocks[a]) # ExtractOptions(question_blocks[b])

RECURSIVE DotDelimiters(_, _)
\* the text with '.' in place of every ')' that follows an option letter
DotDelimiters(s, p) ==
    IF p > Len(s) THEN <<>>
    ELSE <<IF s[p] = ")" /\ IsAD(Tok(s, p - 1)) THEN "." ELSE s[p]>>
             \o DotDelimiters(s, p + 1)

\* what the claim compares of a record: question, option texts,
\* correct_answer and explanation
Content(q) ==
    <<q.question, [n \in 1..Len(q.options) |-> OptionText(q.options[n])],
      q.correct_answer, q.explanation>>

\* C10: a text whose options use ')' and the same text with '.' in place of
\* each of these delimiters give the same records, also when the options of
\* a block do not start at A.
C10_DelimiterImmaterial ==
    pc = "done" =>
        LET other == ParseQuestionsFromText(impl, DotDelimiters(text, 1), expected_count)
        IN  /\ Len(other) = Len(questions)
            /\ \A j \in 1..Len(questions) : Content(other[j]) = Content(questions[j])

-----------------------------------------------------------------------------
(* Header styles, the positional split and expected_count.                 *)

\* the three header styles of the claim, without the space after them
StyleHeader(h) ==
    CASE h = "num"  -> <<"1", ".">>
      [] h = "hash" -> <<"#", "1">>
      [] h = "qn"   -> <<"Question", " ", "1", ":">>

\* the length of the header of one of the three styles that stands at p, or 0
StyleHeaderLenAt(s, p) ==
    LET At(h) == \A n \in 1..Len(StyleHeader(h)) : Tok(s, p + n - 1) = StyleHeader(h)[n]
    IN  IF At("num") \/ At("hash") THEN 2
        ELSE IF At("qn") THEN 4
        ELSE 0

RECURSIVE WithHeaderStyle(_, _, _)
\* the text from p on with every header written in style h
WithHeaderStyle(s, h, p) ==
    IF p > Len(s) THEN <<>>
    ELSE IF StyleHeaderLenAt(s, p) # 0
         THEN StyleHeader(h) \o WithHeaderStyle(s, h, p + StyleHeaderLenAt(s, p))
         ELSE <<s[p]>> \o WithHeaderStyle(s, h, p + 1)

\* C11: a text and the same text with every question header written as
\* 'N.', as '#N' or as 'Question N:' give the same records.
C11_HeaderStyleImmaterial ==
    pc = "done" =>
        \A h \in {"num", "hash", "qn"} :
            LET other == WithHeaderStyle(text, h, 1)
            IN  other # text =>
                    ParseQuestionsFromText(impl, other, expected_count) = questions

\* C11 witness: a text with '#N' headers has returned records, and its two
\* other spellings are other texts
C11_Witness ==
    /\ pc = "done"
    /\ questions # <<>>
    /\ \E p \in 1..Len(text) : Tok(text, p) = "#" /\ StyleHeaderLenAt(text, p) = 2
    /\ WithHeaderStyle(text, "num", 1) # text
    /\ WithHeaderStyle(text, "qn", 1) # WithHeaderStyle(text, "num", 1)

\* C12: when neither header pattern finds a block and expected_count = k >= 1,
\* segmentation gives exactly k blocks, for every text, the empty one included.
C12_SplitGivesCountBlocks ==
    (/\ pc = "done"
     /\ FindAllBlocks(1, text, 1) = <<>>
     /\ FindAllBlocks(2, text, 1) = <<>>
     /\ expected_count >= 1)
        => Len(question_blocks) = expected_count

\* C12 witness: the empty text was cut into 2 blocks, and a text with
\* content was
C12_Witness ==
    /\ pc = "done"
    /\ expected_count = 2
    /\ Len(question_blocks) = 2
    /\ text = <<>> \/ questions # <<>>

\* C13: for a text in which a header pattern finds a block the result is the
\* same for every expected_count, None included: the result of a call with
\* any expected_count is the result of the call with None.
C13_CountOnlyInFallback ==
    (pc = "done" /\ expected_count # NoCount /\ PatternBlocks(text) # <<>>) =>
        ParseQuestionsFromText(impl, text, NoCount) = questions

\* C13 witness: a text with headers has returned, and the number of its
\* records is not the expected_count that was given
C13_Witness ==
    /\ pc = "done"
    /\ PatternBlocks(text) # <<>>
    /\ expected_count >= 1
    /\ questions # <<>>
    /\ Len(questions) # expected_count

\* C14: the empty text gives the empty list, with expected_count None and
\* with every positive expected_count, whose k empty blocks all fail validation.
C14_EmptyTextEmptyResult ==
    pc = "done" /\ text = <<>> =>
        /\ questions = <<>>
        /\ Len(question_blocks) = (IF expected_count = NoCount THEN 0 ELSE expected_count)
        /\ \A b \in 1..Len(question_blocks) : question_blocks[b] = <<>>

\* C14 witness: the empty text has returned from a call with expected_count 2
C14_Witness ==
    /\ pc = "done"
    /\ text = <<>>
    /\ expected_count = 2
    /\ i = 2

-----------------------------------------------------------------------------
(* Padding, the order of the segmentation strategies, the loop over blocks. *)

\* C16: in a record made from fewer than 4 extracted options no placeholder
\* has the label of another option of the record.
C16_PlaceholderLabelsUnused ==
    pc = "done" =>
        \A j \in 1..Len(questions) :
            LET n == Len(ExtractOptions(BlockOf(j)))
            IN  \A p \in (n + 1)..4 : \A q \in 1..4 :
                    q # p => OptionLabel(questions[j].options[p])
                                # OptionLabel(questions[j].options[q])

\* C17: the blocks are those of the first strategy that yields any: the
\* general header pattern; else the 'N. Question:' pattern; else, with an
\* expected_count, the positional split; else none. Never a mixture.
C17_FirstStrategyWins ==
    pc = "done" =>
        LET b1 == FindAllBlocks(1, text, 1)
            b2 == FindAllBlocks(2, text, 1)
        IN  /\ b1 # <<>> => question_blocks = b1
            /\ (b1 = <<>> /\ b2 # <<>>) => question_blocks = b2
            /\ (b1 = <<>> /\ b2 = <<>> /\ expected_count >= 1)
                => question_blocks = ManualBlocks(text, expected_count)
            /\ (b1 = <<>> /\ b2 = <<>> /\ expected_count = NoCount)
                => question_blocks = <<>>

\* C17 witness: a text in which both header patterns find blocks, and
\* different ones, was segmented in a call that gave an expected_count
C17_Witness ==
    /\ pc = "done"
    /\ expected_count >= 1
    /\ FindAllBlocks(1, text, 1) # <<>>
    /\ FindAllBlocks(2, text, 1) # <<>>
    /\ FindAllBlocks(2, text, 1) # FindAllBlocks(1, text, 1)
    /\ questions # <<>>

\* C18: every turn of the loop goes on to the next block and keeps the
\* records it found; a block that fails validation adds nothing; whether a
\* record is added, and which, is decided by the block's text and the
\* question texts of the records before it.
C18_BlocksIndependent ==
    [][(pc = "loop" /\ i < Len(question_blocks)) =>
        LET block == question_blocks[i + 1]
            seen  == {questions[j].question : j \in 1..Len(questions)}
            fails == ~PassesValidation(block)
            kept  == ~fails /\ ExtractQuestionText(block) \notin seen
        IN  /\ i' = i + 1
            /\ pc' = "loop"
            /\ question_blocks' = question_blocks
            /\ fails => questions' = questions
            /\ ~kept => questions' = questions
            /\ kept => questions' = Append(questions, ParseBlock(impl, block)[1])
      ]_vars

\* C18 witness: a record was returned from a block that stands after a block
\* that failed validation, and a record from a block before one that failed
C18_Witness ==
    /\ pc = "done"
    /\ \E j \in 1..Len(questions) : \E b \in 1..Len(question_blocks) :
           b < origin[j] /\ ~PassesValidation(question_blocks[b])
    /\ \/ Len(questions) = 1
       \/ \E b \in 1..Len(question_blocks) :
              origin[1] < b /\ ~PassesValidation(question_blocks[b])

-----------------------------------------------------------------------------
(* The order of the answer markers and of the option patterns.             *)

\* the position of the first match of one correct-answer pattern, or 0
MarkerPos(pat, s) ==
    FirstFrom([r \in 1..(Len(s) + 1) |-> AnswerLetterAt(pat, s, r) # 0], Len(s), 1)

\* C19: the correct_answer of a record is the letter, in upper case, of the
\* first 'Correct Answer:' marker of its block if there is one, wherever the
\* other markers stand; else of the first 'Answer:' marker; else of the
\* first 'Correct:' marker; markers are found in any case.
C19_MarkerPriority ==
    pc = "done" =>
        \A j \in 1..Len(questions) :
            LET a1 == SearchAnswer(1, BlockOf(j))
                a2 == SearchAnswer(2, BlockOf(j))
                a3 == SearchAnswer(3, BlockOf(j))
                ca == questions[j].correct_answer
            IN  /\ a1 # None => ca = a1
                /\ (a1 = None /\ a2 # None) => ca = a2
                /\ (a1 = None /\ a2 = None /\ a3 # None) => ca = a3
                /\ HasAnswerMarker(BlockOf(j)) => ca \in {"A", "B", "C", "D"}

\* C19 witness: in the block of a returned record an 'Answer: C' or
\* 'Correct:D' marker stands before the first 'Correct Answer:' marker,
\* whose letter is returned
C19_Witness ==
    /\ pc = "done"
    /\ \E j \in 1..Len(questions) : \E pat \in {2, 3} :
           /\ MarkerPos(1, BlockOf(j)) # 0
           /\ MarkerPos(pat, BlockOf(j)) # 0
           /\ MarkerPos(pat, BlockOf(j)) < MarkerPos(1, BlockOf(j))
           /\ SearchAnswer(pat, BlockOf(j)) # SearchAnswer(1, BlockOf(j))
           /\ questions[j].correct_answer = "B"

\* C20: the extracted options of a record are the matches of the first
\* option pattern when it finds any in the block, else those of the second;
\* a block in which the first pattern finds one option gives no record,
\* whatever the second would find.
C20_OnePatternPerBlock ==
    pc = "done" =>
        /\ \A j \in 1..Len(questions) :
               LET o1   == FindAllOptions(1, BlockOf(j), 1)
                   used == IF o1 # <<>> THEN o1 ELSE FindAllOptions(2, BlockOf(j), 1)
               IN  /\ Len(used) >= MinOptions
                   /\ \A n \in 1..Min(4, Len(used)) : questions[j].options[n] = used[n]
        /\ \A b \in 1..Len(question_blocks) :
               Len(FindAllOptions(1, question_blocks[b], 1)) = 1
                   => \A j \in 1..Len(origin) : origin[j] # b

\* C20 witness: a record was returned from a block that mixes 'A)' and
\* 'B )', in which the second pattern finds more options than the first
C20_Witness ==
    /\ pc = "done"
    /\ \E j \in 1..Len(questions) :
           /\ FindAllOptions(1, BlockOf(j), 1) # <<>>
           /\ Len(FindAllOptions(2, BlockOf(j), 1)) > Len(FindAllOptions(1, BlockOf(j), 1))
           /\ questions[j].options[3][4] = "[Missing option]"

-----------------------------------------------------------------------------
(* Interleaved invocations.                                                *)

\* C15: what an invocation returns is a function of its arguments alone,
\* however its steps are interleaved with those of another invocation: two
\* invocations with the same arguments return the same list.
C15_PureFunction ==
    /\ \A c \in Callers :
           calls[c].pc = "done" =>
               calls[c].questions
                   = ParseQuestionsFromText(impl, calls[c].text, calls[c].expected_count)
    /\ \A c, d \in Callers :
           (/\ calls[c].pc = "done"
            /\ calls[d].pc = "done"
            /\ calls[c].text = calls[d].text
            /\ calls[c].expected_count = calls[d].expected_count)
               => calls[c].questions = calls[d].questions

\* C15 witness: two invocations with the same arguments, whose steps were
\* interleaved, have both returned two records
C15_Witness ==
    /\ \A c \in Callers : calls[c].pc = "done" /\ calls[c].overlapped
    /\ calls["c1"].text = calls["c2"].text
    /\ calls["c1"].expected_count = calls["c2"].expected_count
    /\ Len(calls["c1"].questions) = 2

-----------------------------------------------------------------------------
(* Question text, explanation, answer key, the implementations.            *)

\* a text begins with an option marker: a letter A-D and ')' or '.'
BeginsWithOption(s) ==
    Len(s) >= 2 /\ s[1] \in {"A", "B", "C", "D"} /\ s[2] \in {")", "."}

\* C21: a block without an 'A)'/'A.' marker whose first line begins with an
\* option marker gives no record: its question text is left empty.
C21_FallbackRejectsOptionLine ==
    pc = "done" =>
        \A j \in 1..Len(questions) :
            ~QSearch(BlockOf(j), 1)[1] => ~BeginsWithOption(Strip(FirstLine(BlockOf(j))))

\* C22: the question of a record begins, in any case, with none of the
\* labels 'question:', '1.', ..., '5.'.
C22_NoLeadingLabel ==
    pc = "done" =>
        \A j \in 1..Len(questions) : \A n \in 1..Len(CleanPrefixes) :
            ~LowerStartsWith(questions[j].question, CleanPrefixes[n])

\* the positions of the 'Explanation:' markers of a block
ExplanationMarks(block) == {p \in 1..Len(block) : ExplanationAt(block, p)}

\* the least element of a non-empty set of numbers
Least(S) == CHOOSE p \in S : \A q \in S : p <= q

\* C23: the explanation of a record is empty when its block has no
\* 'Explanation:' marker (in any case), and else the block from after the
\* first marker to its end, trimmed; the second pattern matches only where
\* the first does.
C23_ExplanationToEnd ==
    pc = "done" =>
        \A j \in 1..Len(questions) :
            LET block == BlockOf(j)
                marks == ExplanationMarks(block)
            IN  /\ questions[j].explanation =
                       IF marks = {} THEN <<>>
                       ELSE Strip(Slice(block, Least(marks) + 2, Len(block) + 1))
                /\ SearchExplanation(2, block)[1] => SearchExplanation(1, block)[1]

\* C23 witness: the explanation of a returned record runs over two lines
C23_Witness ==
    /\ pc = "done"
    /\ \E j \in 1..Len(questions) :
           /\ ExplanationMarks(BlockOf(j)) # {}
           /\ \E p \in 1..Len(questions[j].explanation) : questions[j].explanation[p] = "\n"

\* C25: the correct_answer of every record is the label of one of its options.
C25_AnswerIsAnOptionLabel ==
    pc = "done" =>
        \A j \in 1..Len(questions) :
            \E n \in 1..Len(questions[j].options) :
                OptionLabel(questions[j].options[n]) = questions[j].correct_answer

\* C26: the loop of each of the three implementations over the blocks of the
\* call gives the list the call returns.
C26_ImplementationsAgree ==
    (pc = "done" /\ impl = "models") =>
        \A im \in AllImpls \ {impl} : ParseBlocks(im, question_blocks, 1, <<>>) = questions

\* C26 witness: a call has returned a record and dropped a block with a
\* question text and one option, where the refactored version returns early
C26_Witness ==
    /\ pc = "done"
    /\ impl = "models"
    /\ questions # <<>>
    /\ \E b \in 1..Len(question_blocks) :
           /\ ExtractQuestionText(question_blocks[b]) # <<>>
           /\ Len(ExtractOptions(question_blocks[b])) = 1

\* C28: in a text in which the general header pattern finds no block the
\* 'N. Question:' pattern finds none either.
C28_SecondPatternAddsNothing ==
    (pc = "done" /\ FindAllBlocks(1, text, 1) = <<>>) => FindAllBlocks(2, text, 1) = <<>>

\* C28 witness: a text that holds 'Question:' and no header was parsed from
\* the blocks of the positional split
C28_Witness ==
    /\ pc = "done"
    /\ FindAllBlocks(1, text, 1) = <<>>
    /\ \E p \in 1..Len(text) : text[p] = "Question" /\ Tok(text, p + 1) = ":"
    /\ expected_count >= 1
    /\ questions # <<>>

\* C29: in the positional split of a text of at most 100 characters every
\* block is the whole text, and the call returns at most one record.
C29_ShortTextWholeBlocks ==
    (/\ pc = "done"
     /\ PatternBlocks(text) = <<>>
     /\ expected_count >= 1
     /\ StrLen(text) <= Margin)
        => /\ \A b \in 1..Len(question_blocks) : question_blocks[b] = text
           /\ Len(questions) <= 1

\* C29 witness: a text of exactly 100 characters was cut into 2 blocks and
\* gave one record
C29_Witness ==
    /\ pc = "done"
    /\ StrLen(text) = Margin
    /\ expected_count = 2
    /\ Len(question_blocks) = 2
    /\ Len(questions) = 1

-----------------------------------------------------------------------------
(* The coverage of the positional split.                                   *)

\* the positions 0..n-1 that no slice [start_idx, end_idx) contains
Uncovered(n, sp) ==
    {p \in 0..(n - 1) : \A j \in 1..Len(sp) : ~(sp[j][1] <= p /\ p < sp[j][2])}

\* C27: in the positional split with 1 <= expected_count <= 101, block 0
\* starts at position 0, each block starts no later than the block before
\* it ends, the last block ends at len(text), and so every position of the
\* text lies in at least one block.
C27_SplitCoversText ==
    (pc = "loop" /\ i = 0 /\ spans # <<>> /\ expected_count \in 1..(Margin + 1)) =>
        /\ Len(spans) = expected_count
        /\ Len(question_blocks) = expected_count
        /\ spans[1][1] = 0
        /\ \A j \in 1..(Len(spans) - 1) : spans[j + 1][1] <= spans[j][2]
        /\ spans[Len(spans)][2] = StrLen(text)
        /\ Uncovered(StrLen(text), spans) = {}
        /\ \A j \in 1..Len(spans) :
               StrLen(question_blocks[j]) = spans[j][2] - spans[j][1]

\* 101 blocks of a text of 201 characters: avg_length is 1, the division
\* loses 100 characters, the last block ends at the end by its margin alone
C27_Witness ==
    /\ pc = "done"
    /\ expected_count = Margin + 1
    /\ StrLen(text) = 2 * Margin + 1
    /\ Len(spans) = Margin + 1
    /\ spans[Len(spans)] = <<0, StrLen(text)>>
    /\ spans[1] = <<0, Margin + 1>>
    /\ Len(questions) = 1

-----------------------------------------------------------------------------
(* The API around the parser.                                              *)

\* C24: on the endpoint and on the service, the parser is only ever called
\* with a string: when engine.generate_questions returned None the parser is
\* not called and the request ends without an exception from the parser.
C24_ParserReceivesString ==
    /\ api.req.parser_called => api.req.raw_questions # NoText
    /\ api.req.outcome # "TypeError"

\* C30: clear_index is all-or-nothing: after it returned True the index
\* directory is removed, the collection is empty and the index is None;
\* after it returned False the engine is as the call found it.
C30_ClearAllOrNothing ==
    /\ api.clear.result = "True" =>
           api.engine = [index |-> FALSE, dir |-> "absent", collection |-> 0]
    /\ api.clear.result = "False" => api.engine = api.clear.before

====
